---- MODULE Spec2Model ----
(***************************************************************************)
(* Model of weston-desktop-matchbox (src/src/main.c): the event handlers   *)
(* of the desktop-shell client, one action per handler.  Handlers run to   *)
(* completion (single-threaded wl_display_dispatch loop), so every action  *)
(* is one whole handler.                                                   *)
(*                                                                         *)
(* Lengths are whole pixels.  Doubles of the program (cursor_y, y_scroll,  *)
(* extents.height) only ever hold sums of whole-pixel inputs here, so they *)
(* are exact integers; wl_fixed_t event arguments are 24.8 fixed point.    *)
(***************************************************************************)
EXTENDS Integers, Sequences, FiniteSets, TLC

(***************************************************************************)
(* Program constants                                                       *)
(***************************************************************************)
MENU_PADDING == 10

BTN_LEFT == 272

BTN_RIGHT == 273

WL_POINTER_BUTTON_STATE_RELEASED == 0

WL_POINTER_BUTTON_STATE_PRESSED == 1

WL_POINTER_AXIS_VERTICAL_SCROLL == 0

WL_POINTER_AXIS_HORIZONTAL_SCROLL == 1

WL_OUTPUT_MODE_CURRENT == 1

WL_OUTPUT_MODE_PREFERRED == 2

WL_SEAT_CAPABILITY_POINTER == 1

WL_SEAT_CAPABILITY_KEYBOARD == 2

\* one unit of a wl_fixed_t is 1/256 pixel
WL_FIXED_ONE == 256

\* Stands for the uint32_t values of 2^31 and above that a wrapped subtraction
\* yields (TLC's integers end at 2^31 - 1); it exceeds every height of the model.
UINT32_WRAPPED == 2147483647

(***************************************************************************)
(* Bounds of the model                                                     *)
(***************************************************************************)
\* extents.height reported by cairo_font_extents for the fixed font
FontHeight == 4

\* largest number of buffers a pool holds in the model
MaxBuffers == 2

\* |y_scroll| never exceeds this in the model (axis events beyond it are not sent)
MaxScroll == 12

\* wl_pointer objects one seat may hold in the model
MaxPointers == 2

\* entries of the list g_app_info_get_all() returns, in the model
MaxApps == 3

\* the sorted application list built by main(): display names
application_list == <<"Box", "Zed", "apple">>

\* display names of installed applications and their bytes (ASCII)
AppNames == {"Bo", "Box", "Zed", "apple"}

NameBytes ==
  [n \in AppNames |->
     CASE n = "Bo" -> <<66, 111>>
       [] n = "Box" -> <<66, 111, 120>>
       [] n = "Zed" -> <<90, 101, 100>>
       [] n = "apple" -> <<97, 112, 112, 108, 101>>]

\* the GAppInfo objects: display name, whether g_app_info_should_show, and the
\* place in g_app_info_get_all()'s list (which tells equal names apart)
AppLists ==
  {[i \in 1..MaxApps |-> [name |-> f[i][1], should_show |-> f[i][2], id |-> i]]:
     f \in [1..MaxApps -> AppNames \X BOOLEAN]}

\* the applications installed where the other events of the model are handled
InstalledApps ==
  <<[name |-> "Zed", should_show |-> TRUE, id |-> 1],
    [name |-> "apple", should_show |-> TRUE, id |-> 2],
    [name |-> "Box", should_show |-> TRUE, id |-> 3]>>

Seats == {"seat0", "seat1"}

\* (width, height) pairs the shell sends in configure events
ConfigSizes == {<<8, 20>>, <<6, 40>>}

\* (width, height) pairs of wl_output.mode events
ModeSizes == {<<8, 6>>, <<10, 7>>}

ModeFlags == {WL_OUTPUT_MODE_CURRENT, WL_OUTPUT_MODE_PREFERRED}

\* surface_y of pointer enter/motion events, as wl_fixed_t
SurfaceYs == {10 * WL_FIXED_ONE, 15 * WL_FIXED_ONE}

SurfaceXs == {5 * WL_FIXED_ONE}

\* axis values, as wl_fixed_t
AxisValues == {(0 - 6) * WL_FIXED_ONE, 6 * WL_FIXED_ONE}

Axes == {WL_POINTER_AXIS_VERTICAL_SCROLL, WL_POINTER_AXIS_HORIZONTAL_SCROLL}

Buttons == {BTN_LEFT, BTN_RIGHT}

ButtonStates == {WL_POINTER_BUTTON_STATE_RELEASED, WL_POINTER_BUTTON_STATE_PRESSED}

Capabilities == {WL_SEAT_CAPABILITY_POINTER, WL_SEAT_CAPABILITY_KEYBOARD}

VARIABLES
  output,          \* struct output: width, height, background (pointer set or NULL)
  bg,              \* struct background of the output (zeroed while none exists)
  seat,            \* struct seat per seat: pointer objects, pointer.surface
  current_cursor,  \* global current_cursor: "NULL" or the cursor's name
  callbacks,       \* live wl_callback frame objects created on the surface
  committed,       \* the surface has been committed with a buffer (it is mapped)
  set_background,  \* weston_desktop_shell_set_background requests sent
  inside,          \* compositor side: the seat's pointer is over the surface
  effects,         \* what the most recent handler did (draw, allocation, launch)
  pending,         \* a draw_background call not yet followed by a paint-and-commit
  crashed,         \* the process died on a NULL dereference
  shown,           \* the menu rows of the frame committed last, where recorded
  app_list,        \* main: the list g_app_info_get_all() returned (empty once freed)
  cur,             \* main: the place in app_list the loop is at, from 1
  sorted_apps,     \* main: the GAppInfo list behind application_list, as built so far
  pc,              \* main: where it is (roundtrips, roundtrip, checks, dispatch, exited)
  need_roundtrip,  \* global need_roundtrip
  ret,             \* main: ret, the exit code once main has returned
  desktop_shell,   \* global desktop_shell is bound (not NULL)
  xdg_wm_base,     \* global xdg_wm_base is bound
  viewporter,      \* global viewporter is bound
  output_list,     \* outputs in output_list (struct output made by registry_global)
  requests         \* weston_desktop_shell requests main itself has sent

\* the variables of the event handlers
handlervars == <<output, bg, seat, current_cursor, callbacks, committed,
                 set_background, inside, effects, pending, crashed, shown>>

\* the variables of the list building at the start of main
listvars == <<app_list, cur, sorted_apps>>

\* the variables of main's discovery, dispatch loop and exit
mainvars == <<pc, need_roundtrip, ret, desktop_shell, xdg_wm_base, viewporter,
              output_list, requests>>

vars == <<output, bg, seat, current_cursor, callbacks, committed, set_background,
          inside, effects, pending, crashed, shown, app_list, cur, sorted_apps,
          pc, need_roundtrip, ret, desktop_shell, xdg_wm_base, viewporter,
          output_list, requests>>

Max(a, b) == IF a > b THEN a ELSE b

Min(a, b) == IF a < b THEN a ELSE b

\* flags & bit, for a single-bit mask
HasBit(flags, bit) == (flags \div bit) % 2 = 1

wl_fixed_to_double(f) == f \div WL_FIXED_ONE

(***************************************************************************)
(* Buffers                                                                 *)
(***************************************************************************)
\* the null struct buffer pointer (no buffer has size 0: mmap refuses it)
NULL == [busy |-> FALSE, width |-> 0, height |-> 0, stride |-> 0]

\* cairo_format_stride_for_width(CAIRO_FORMAT_RGB24, width): 4 bytes per pixel
cairo_format_stride_for_width(width) == 4 * width

\* create_buffer: NULL when memfd_create/ftruncate/mmap fail (mmap of size 0 fails)
create_buffer(width, height, stride, allocOk) ==
  LET size == height * stride
  IN IF allocOk /\ size > 0
     THEN [busy |-> FALSE, width |-> width, height |-> height, stride |-> stride]
     ELSE NULL

\* buffer_release: the compositor no longer uses the buffer
buffer_release(buffer) == [buffer EXCEPT !.busy = FALSE]

\* attach_buffer: wl_surface_attach and mark busy
attach_buffer(buffer) == [buffer EXCEPT !.busy = TRUE]

WrongSize(buffer, width, height, stride) ==
  \/ buffer.width # width
  \/ buffer.height # height
  \/ buffer.stride # stride

\* a draw that frees every buffer the compositor does not hold
ShouldFree_AnyIdle(buffer, width, height, stride) == ~buffer.busy

\* first loop of draw_background: which buffers are removed and freed
ShouldFree(buffer, width, height, stride) ==
  ~buffer.busy /\ WrongSize(buffer, width, height, stride)

\* a draw that takes any buffer of the right size, busy or not
Reusable_IgnoringBusy(buffer, width, height, stride) ==
  ~WrongSize(buffer, width, height, stride)

\* second loop of draw_background: which buffer may be painted
Reusable(buffer, width, height, stride) ==
  ~buffer.busy /\ ~WrongSize(buffer, width, height, stride)

RemoveUnused(buffers, width, height, stride) ==
  SelectSeq(buffers, LAMBDA x: ~ShouldFree(x, width, height, stride))

\* index of the first reusable buffer in list order, 0 when there is none
FindBuffer(buffers, width, height, stride) ==
  LET S == {i \in 1..Len(buffers): Reusable(buffers[i], width, height, stride)}
  IN IF S = {} THEN 0 ELSE CHOOSE i \in S: \A j \in S: i <= j

(***************************************************************************)
(* Menu geometry                                                           *)
(***************************************************************************)
g_list_length(list) == Len(list)

\* background->height - MENU_PADDING * 2, computed in uint32_t: it wraps
\* around when height < MENU_PADDING * 2
VisibleHeight(height) ==
  IF height >= MENU_PADDING * 2 THEN height - MENU_PADDING * 2 ELSE UINT32_WRAPPED

\* the clamp of y_scroll in draw_background
ClampScroll(y_scroll, extents_height, height) ==
  LET total_height == g_list_length(application_list) * extents_height
      max_y_scroll == total_height - VisibleHeight(height)
  IN IF max_y_scroll > 0
     THEN Min(Max(y_scroll, 0), max_y_scroll)
     ELSE 0

(***************************************************************************)
(* draw_background                                                         *)
(***************************************************************************)
\* a draw_background that never defers
CanDraw_Always(b) == TRUE

\* the test at the top of draw_background: no frame callback is outstanding
CanDraw(b) == ~b.frame

\* outcome of a handler that did not call draw_background
NoDraw(b) ==
  [bg |-> b, called |-> FALSE, drew |-> FALSE, painted |-> 0, alloc |-> "none",
   freed |-> 0, crashed |-> FALSE, overflow |-> FALSE]

\* outcome of a draw_background call
Outcome(b, drew, painted, alloc, freed, isCrash, overflow) ==
  [bg |-> b, called |-> TRUE, drew |-> drew, painted |-> painted, alloc |-> alloc,
   freed |-> freed, crashed |-> isCrash, overflow |-> overflow]

\* draw_background(background); allocOk: whether memfd_create/ftruncate/mmap
\* succeed should create_buffer be called.  The result names the new struct
\* background and what the call did.
draw_background(b, allocOk) ==
  IF ~CanDraw(b)
  THEN Outcome([b EXCEPT !.needs_draw = TRUE], FALSE, 0, "none", 0, FALSE, FALSE)
  ELSE
    LET stride == cairo_format_stride_for_width(b.width)
        kept == RemoveUnused(b.buffers, b.width, b.height, stride)
        i == FindBuffer(kept, b.width, b.height, stride)
        found == i # 0
        freed == Len(b.buffers) - Len(kept)
        created == create_buffer(b.width, b.height, stride, allocOk)
        b1 == [b EXCEPT !.needs_draw = FALSE, !.buffers = kept]
    IN IF ~found /\ created = NULL
       THEN \* wl_list_insert(&background->buffers, &buffer->link) with buffer NULL:
            \* link is the first member, so libwayland stores through address 0
            \* and the process dies with SIGSEGV, whatever the build
            Outcome(b1, FALSE, 0, "failed", freed, TRUE, FALSE)
       ELSE
         LET pool == IF found THEN kept ELSE <<created>> \o kept
             k == IF found THEN i ELSE 1
             y == ClampScroll(b.y_scroll, FontHeight, b.height)
             b2 == [b1 EXCEPT !.buffers = [pool EXCEPT ![k] = attach_buffer(pool[k])],
                              !.extents_height = FontHeight,
                              !.y_scroll = y,
                              !.frame = TRUE]
         IN Outcome(b2, TRUE, k, IF found THEN "none" ELSE "ok", freed, FALSE,
                    ~found /\ Len(kept) >= MaxBuffers)

(***************************************************************************)
(* Background handlers                                                     *)
(***************************************************************************)
background_configure(b, width, height, allocOk) ==
  draw_background([b EXCEPT !.width = width, !.height = height], allocOk)

background_cursor_motion(b, allocOk) == draw_background(b, allocOk)

background_cursor_enter(b, allocOk) == draw_background(b, allocOk)

background_cursor_leave(b, allocOk) == draw_background(b, allocOk)

background_pointer_axis(b, axis, value, allocOk) ==
  IF axis = WL_POINTER_AXIS_VERTICAL_SCROLL
  THEN draw_background([b EXCEPT !.y_scroll = b.y_scroll + value], allocOk)
  ELSE NoDraw(b)

\* a frame-done handler that forgets the latched redraw
background_frame_done_NoRedraw(b, allocOk) == NoDraw([b EXCEPT !.frame = FALSE])

\* background_frame_done, after wl_callback_destroy(background->frame)
background_frame_done(b, allocOk) ==
  LET b1 == [b EXCEPT !.frame = FALSE]
  IN IF b1.needs_draw THEN draw_background(b1, allocOk) ELSE NoDraw(b1)

g_list_nth_data(list, n) == IF n < Len(list) THEN list[n + 1] ELSE "NULL"

\* y of the row of entry number index (from 0) in the loop of draw_background:
\* y starts at MENU_PADDING - y_scroll and grows by extents.height per entry
RECURSIVE RowY(_, _, _)
RowY(y_scroll, extents_height, index) ==
  IF index = 0
  THEN MENU_PADDING - y_scroll
  ELSE RowY(y_scroll, extents_height, index - 1) + extents_height

\* a highlight that takes the row's top edge and leaves its bottom edge
Highlighted_TopEdge(b, y) == b.cursor_y >= y /\ b.cursor_y < y + b.extents_height

\* the test of draw_background for the highlight colour of the row at y
Highlighted(b, y) == b.cursor_y > y /\ b.cursor_y <= y + b.extents_height

\* the test of draw_background for painting the row at y at all
Visible(b, y) == y + b.extents_height >= 0 /\ y <= b.height

\* the rows the loop of draw_background paints from entry number index on
\* (cairo_show_text of the name at y, in the highlight or the text colour)
RECURSIVE PaintFrom(_, _)
PaintFrom(b, index) ==
  IF index >= g_list_length(application_list)
  THEN <<>>
  ELSE LET y == RowY(b.y_scroll, b.extents_height, index)
           row == [name |-> application_list[index + 1], index |-> index, y |-> y,
                   height |-> b.extents_height, highlighted |-> Highlighted(b, y)]
       IN (IF Visible(b, y) THEN <<row>> ELSE <<>>) \o PaintFrom(b, index + 1)

PaintRows(b) == PaintFrom(b, 0)

\* a hit test that forgets the padding above the first row
MenuY_NoPadding(b) == b.cursor_y + b.y_scroll

\* menu_y of background_pointer_button
MenuY(b) == b.cursor_y + b.y_scroll - MENU_PADDING

\* guint menu_idx = menu_y / extents.height, for menu_y >= 0
MenuIdx(b) == MenuY(b) \div b.extents_height

\* a button handler that launches on press as well as on release
background_pointer_button_AnyState(b, button, state) ==
  IF button = BTN_LEFT /\ b.extents_height # 0 /\ MenuY(b) >= 0
  THEN LET app == g_list_nth_data(application_list, MenuIdx(b))
       IN IF app # "NULL" THEN <<app>> ELSE <<>>
  ELSE <<>>

\* background_pointer_button: the launch_app calls it makes, in order
background_pointer_button(b, button, state) ==
  IF /\ button = BTN_LEFT
     /\ state = WL_POINTER_BUTTON_STATE_RELEASED
     /\ b.extents_height # 0
  THEN IF MenuY(b) >= 0
       THEN LET app == g_list_nth_data(application_list, MenuIdx(b))
            IN IF app # "NULL" THEN <<app>> ELSE <<>>
       ELSE <<>>
  ELSE <<>>

(***************************************************************************)
(* The application list                                                    *)
(***************************************************************************)
\* strcmp: the difference of the first two bytes (as unsigned char) that
\* differ, the end of a string counting as byte 0
RECURSIVE strcmp(_, _)
strcmp(a, b) ==
  IF a = <<>> /\ b = <<>> THEN 0
  ELSE IF a = <<>> THEN 0 - Head(b)
  ELSE IF b = <<>> THEN Head(a)
  ELSE IF Head(a) # Head(b) THEN Head(a) - Head(b)
  ELSE strcmp(Tail(a), Tail(b))

\* g_strcmp0 of two names that are not NULL
g_strcmp0(str1, str2) == strcmp(NameBytes[str1], NameBytes[str2])

g_app_info_get_name(app) == app.name

g_app_info_should_show(app) == app.should_show

\* a comparison with its arguments swapped
sort_apps_Swapped(a, b) == g_strcmp0(g_app_info_get_name(b), g_app_info_get_name(a))

sort_apps(a, b) == g_strcmp0(g_app_info_get_name(a), g_app_info_get_name(b))

\* g_list_insert_sorted(list, data, sort_apps) of GLib: walk the list while
\* sort_apps(data, element) > 0 and put data before the element the walk stops
\* at, or behind the last element when it is greater than all of them
g_list_insert_sorted(list, data) ==
  LET S == {i \in 1..Len(list): sort_apps(data, list[i]) <= 0}
  IN IF S = {}
     THEN Append(list, data)
     ELSE LET i == CHOOSE k \in S: \A j \in S: k <= j
          IN SubSeq(list, 1, i - 1) \o <<data>> \o SubSeq(list, i, Len(list))

\* the loop of main over g_app_info_get_all()'s list, run to its end
RECURSIVE BuildList(_, _)
BuildList(list, todo) ==
  IF todo = <<>> THEN list
  ELSE BuildList(IF g_app_info_should_show(Head(todo))
                 THEN g_list_insert_sorted(list, Head(todo))
                 ELSE list,
                 Tail(todo))

(***************************************************************************)
(* State                                                                   *)
(***************************************************************************)
\* a Background that takes the size of the output's current mode
NewBackground_SizedFromMode ==
  [width |-> output.width, height |-> output.height, y_scroll |-> 0, frame |-> FALSE,
   needs_draw |-> FALSE, extents_height |-> 0, cursor |-> "left_ptr",
   cursor_x |-> 0 - 1, cursor_y |-> 0 - 1, buffers |-> <<>>]

\* calloc'ed struct background as output_done leaves it
NewBackground ==
  [width |-> 0, height |-> 0, y_scroll |-> 0, frame |-> FALSE, needs_draw |-> FALSE,
   extents_height |-> 0, cursor |-> "left_ptr", cursor_x |-> 0 - 1, cursor_y |-> 0 - 1,
   buffers |-> <<>>]

\* painted: place in the pool of the buffer painted and attached (0: none);
\* alloc: what create_buffer returned; freed: the free_buffer calls;
\* rows: the menu rows the draw painted; launched: the launch_app calls;
\* set_cursor: wl_pointer_set_cursor was sent; done: what output_done did
NoEffects ==
  [painted |-> 0, alloc |-> "none", freed |-> 0, rows |-> <<>>, launched |-> <<>>,
   set_cursor |-> FALSE, done |-> "none"]

\* the seats whose wl_seat registry_global has bound: a struct seat with the
\* seat listener exists for them
BoundSeats == {s \in Seats : seat[s].bound}

\* no event has been handled yet
NoEvents ==
  /\ output = [width |-> 0, height |-> 0, background |-> FALSE]
  /\ bg = NewBackground
  /\ seat \in [Seats -> {[bound |-> b, pointer |-> 0, surface |-> "NULL"] :
                          b \in BOOLEAN}]
  /\ current_cursor = "NULL"
  /\ callbacks = 0
  /\ committed = FALSE
  /\ set_background = 0
  /\ inside = [s \in Seats |-> FALSE]
  /\ effects = NoEffects
  /\ pending = FALSE
  /\ crashed = FALSE
  /\ shown \in {[recorded |-> FALSE, rows |-> <<>>], [recorded |-> TRUE, rows |-> <<>>]}

\* main has built application_list (and freed app_list)
ListBuilt ==
  /\ app_list = <<>>
  /\ cur = 1
  /\ sorted_apps = BuildList(<<>>, InstalledApps)

\* main is about to connect: nothing is bound, need_roundtrip is true
NotConnected ==
  /\ pc = "roundtrips"
  /\ need_roundtrip = TRUE
  /\ ret = 0
  /\ desktop_shell = FALSE
  /\ xdg_wm_base = FALSE
  /\ viewporter = FALSE
  /\ output_list = 0
  /\ requests = {}

\* main has built application_list, found every global and one output in its
\* discovery round-trips, and dispatches events
Init ==
  /\ NoEvents
  /\ BoundSeats = {"seat0"}
  /\ ~shown.recorded
  /\ ListBuilt
  /\ pc = "dispatch"
  /\ need_roundtrip = FALSE
  /\ ret = 0
  /\ desktop_shell = TRUE
  /\ xdg_wm_base = TRUE
  /\ viewporter = TRUE
  /\ output_list = 1
  /\ requests = {"set_panel_position", "desktop_ready"}

\* events are dispatched inside wl_display_roundtrip and wl_display_dispatch
Dispatching == pc \in {"roundtrip", "dispatch"}

\* what a handler leaves behind: r is the outcome of its draw_background call
\* (attach, damage, frame callback, commit), cbs the frame callbacks alive before it
Handled(r, cbs, launched, cursorSet, done) ==
  /\ Dispatching
  /\ ~r.overflow
  /\ bg' = r.bg
  /\ callbacks' = cbs + (IF r.drew THEN 1 ELSE 0)
  /\ committed' = (committed \/ r.drew)
  /\ crashed' = r.crashed
  /\ pending' = (IF r.called THEN ~r.drew ELSE pending)
  /\ shown' = (IF r.drew /\ shown.recorded
               THEN [shown EXCEPT !.rows = PaintRows(r.bg)]
               ELSE shown)
  /\ effects' = [painted |-> r.painted, alloc |-> r.alloc, freed |-> r.freed,
                 rows |-> (IF r.drew THEN PaintRows(r.bg) ELSE <<>>),
                 launched |-> launched, set_cursor |-> cursorSet, done |-> done]
  /\ UNCHANGED <<listvars, mainvars>>

\* a handler that may have called draw_background, with outcome r.  A failing
\* create_buffer (allocOk = FALSE) is an input only of a handler that calls it.
Drew(r, allocOk, cbs, cursorSet) ==
  /\ allocOk \/ r.alloc = "failed"
  /\ Handled(r, cbs, <<>>, cursorSet, "none")

\* a handler that leaves the Background b behind and draws nothing
Quiet(b) == Handled(NoDraw(b), callbacks, <<>>, FALSE, "none")

(***************************************************************************)
(* Output                                                                  *)
(***************************************************************************)
\* an output_done that provisions on every done event
NeedsBackground_Always(o) == TRUE

\* output_done creates the Background only when the output has none
NeedsBackground(o) == ~o.background

output_mode(o, flags, width, height) ==
  IF HasBit(flags, WL_OUTPUT_MODE_CURRENT)
  THEN [o EXCEPT !.width = width, !.height = height]
  ELSE o

OutputMode(flags, size) ==
  /\ ~crashed
  /\ output_list > 0
  /\ output' = output_mode(output, flags, size[1], size[2])
  /\ Quiet(bg)
  /\ UNCHANGED <<seat, current_cursor, set_background, inside>>

\* weston_desktop_shell_set_background on desktop_shell = NULL reads the
\* version of the proxy through address 0: the process dies with SIGSEGV
OutputDone ==
  /\ ~crashed
  /\ output_list > 0
  /\ IF NeedsBackground(output)
     THEN /\ output' = [output EXCEPT !.background = TRUE]
          /\ IF desktop_shell
             THEN /\ set_background' = set_background + 1
                  /\ Handled(NoDraw(NewBackground), 0, <<>>, FALSE, "created")
             ELSE /\ set_background' = set_background
                  /\ Handled([NoDraw(NewBackground) EXCEPT !.crashed = TRUE], 0, <<>>,
                             FALSE, "created")
     ELSE /\ Handled(NoDraw(bg), callbacks, <<>>, FALSE, "kept")
          /\ UNCHANGED <<output, set_background>>
  /\ UNCHANGED <<seat, current_cursor, inside>>

(***************************************************************************)
(* Shell, frame callback, buffer release                                   *)
(***************************************************************************)
\* desktop_shell_configure -> background_configure; sent once the surface
\* has been registered with set_background
DesktopShellConfigure(size, allocOk) ==
  /\ ~crashed
  /\ pc = "dispatch"
  /\ output.background
  /\ Drew(background_configure(bg, size[1], size[2], allocOk), allocOk,
          callbacks, FALSE)
  /\ UNCHANGED <<output, seat, current_cursor, set_background, inside>>

\* the compositor fires a frame callback that is alive
BackgroundFrameDone(allocOk) ==
  /\ ~crashed
  /\ callbacks > 0
  /\ Drew(background_frame_done(bg, allocOk), allocOk, callbacks - 1,
          FALSE)
  /\ UNCHANGED <<output, seat, current_cursor, set_background, inside>>

\* the compositor releases a buffer it holds
BufferRelease(i) ==
  /\ ~crashed
  /\ i \in 1..Len(bg.buffers)
  /\ bg.buffers[i].busy
  /\ Quiet([bg EXCEPT !.buffers[i] = buffer_release(bg.buffers[i])])
  /\ UNCHANGED <<output, seat, current_cursor, set_background, inside>>

(***************************************************************************)
(* Seat and pointer                                                        *)
(***************************************************************************)
seat_capabilities(st, capabilities) ==
  IF HasBit(capabilities, WL_SEAT_CAPABILITY_POINTER)
  THEN [st EXCEPT !.pointer = st.pointer + 1, !.surface = "NULL"]
  ELSE st

SeatCapabilities(s, capabilities) ==
  /\ ~crashed
  /\ seat[s].bound
  /\ seat_capabilities(seat[s], capabilities).pointer <= MaxPointers
  /\ seat' = [seat EXCEPT ![s] = seat_capabilities(seat[s], capabilities)]
  /\ Quiet(bg)
  /\ UNCHANGED <<output, current_cursor, set_background, inside>>

\* set_cursor: the new current_cursor and whether wl_pointer_set_cursor was sent
\* (the cursor theme holds the cursor the Background names)
set_cursor(current, name) ==
  IF current # "NULL" /\ current = name
  THEN [current_cursor |-> current, sent |-> FALSE]
  ELSE [current_cursor |-> name, sent |-> TRUE]

\* the compositor sends pointer events for a surface that is mapped, to a
\* seat that has a wl_pointer
PointerCanReach(s) == seat[s].pointer > 0 /\ committed

PointerEnter(s, surface_x, surface_y, allocOk) ==
  /\ ~crashed
  /\ PointerCanReach(s)
  /\ ~inside[s]
  /\ inside' = [inside EXCEPT ![s] = TRUE]
  /\ seat' = [seat EXCEPT ![s].surface = "bg"]
  /\ LET c == IF bg.cursor # "NULL" THEN set_cursor(current_cursor, bg.cursor)
              ELSE [current_cursor |-> current_cursor, sent |-> FALSE]
         b == [bg EXCEPT !.cursor_x = wl_fixed_to_double(surface_x),
                         !.cursor_y = wl_fixed_to_double(surface_y)]
     IN /\ current_cursor' = c.current_cursor
        /\ Drew(background_cursor_enter(b, allocOk), allocOk,
                callbacks, c.sent)
  /\ UNCHANGED <<output, set_background>>

\* pointer_leave: the fields after on_cursor_leave are written only when the
\* handler returns
PointerLeave(s, allocOk) ==
  /\ ~crashed
  /\ PointerCanReach(s)
  /\ inside[s]
  /\ inside' = [inside EXCEPT ![s] = FALSE]
  /\ LET b == [bg EXCEPT !.cursor_x = 0 - 1, !.cursor_y = 0 - 1]
         r == background_cursor_leave(b, allocOk)
     IN /\ Drew(r, allocOk, callbacks, FALSE)
        /\ seat' = (IF r.crashed THEN seat ELSE [seat EXCEPT ![s].surface = "NULL"])
        /\ current_cursor' = (IF r.crashed THEN current_cursor ELSE "NULL")
  /\ UNCHANGED <<output, set_background>>

PointerMotion(s, surface_x, surface_y, allocOk) ==
  /\ ~crashed
  /\ PointerCanReach(s)
  /\ inside[s]
  /\ IF seat[s].surface # "NULL"
     THEN LET b == [bg EXCEPT !.cursor_x = wl_fixed_to_double(surface_x),
                              !.cursor_y = wl_fixed_to_double(surface_y)]
          IN Drew(background_cursor_motion(b, allocOk), allocOk,
                  callbacks, FALSE)
     ELSE allocOk /\ Quiet(bg)
  /\ UNCHANGED <<output, seat, current_cursor, set_background, inside>>

PointerButton(s, button, state) ==
  /\ ~crashed
  /\ PointerCanReach(s)
  /\ inside[s]
  /\ IF seat[s].surface # "NULL"
     THEN Handled(NoDraw(bg), callbacks, background_pointer_button(bg, button, state),
                  FALSE, "none")
     ELSE Quiet(bg)
  /\ UNCHANGED <<output, seat, current_cursor, set_background, inside>>

PointerAxis(s, axis, value, allocOk) ==
  /\ ~crashed
  /\ PointerCanReach(s)
  /\ inside[s]
  /\ bg.y_scroll + wl_fixed_to_double(value) \in (0 - MaxScroll)..MaxScroll
  /\ IF seat[s].surface # "NULL"
     THEN Drew(background_pointer_axis(bg, axis, wl_fixed_to_double(value), allocOk),
               allocOk, callbacks, FALSE)
     ELSE allocOk /\ Quiet(bg)
  /\ UNCHANGED <<output, seat, current_cursor, set_background, inside>>

\* pointer_frame: the Background sets no on_pointer_frame handler
PointerFrame(s) ==
  /\ ~crashed
  /\ PointerCanReach(s)
  /\ inside[s]
  /\ Quiet(bg)
  /\ UNCHANGED <<output, seat, current_cursor, set_background, inside>>

Next ==
  \/ \E flags \in ModeFlags, size \in ModeSizes: OutputMode(flags, size)
  \/ OutputDone
  \/ \E size \in ConfigSizes, allocOk \in BOOLEAN: DesktopShellConfigure(size, allocOk)
  \/ \E allocOk \in BOOLEAN: BackgroundFrameDone(allocOk)
  \/ \E i \in 1..MaxBuffers: BufferRelease(i)
  \/ \E s \in Seats, c \in Capabilities: SeatCapabilities(s, c)
  \/ \E s \in Seats, x \in SurfaceXs, y \in SurfaceYs, allocOk \in BOOLEAN:
       PointerEnter(s, x, y, allocOk)
  \/ \E s \in Seats, allocOk \in BOOLEAN: PointerLeave(s, allocOk)
  \/ \E s \in Seats, x \in SurfaceXs, y \in SurfaceYs, allocOk \in BOOLEAN:
       PointerMotion(s, x, y, allocOk)
  \/ \E s \in Seats, b \in Buttons, st \in ButtonStates: PointerButton(s, b, st)
  \/ \E s \in Seats, a \in Axes, v \in AxisValues, allocOk \in BOOLEAN:
       PointerAxis(s, a, v, allocOk)
  \/ \E s \in Seats: PointerFrame(s)

Spec == Init /\ [][Next]_vars

\* the dispatch loop as in Spec, with the rows of the frame committed last
\* recorded in shown
FrameInit ==
  /\ NoEvents
  /\ BoundSeats = {"seat0"}
  /\ shown.recorded
  /\ ListBuilt
  /\ pc = "dispatch"
  /\ need_roundtrip = FALSE
  /\ ret = 0
  /\ desktop_shell = TRUE
  /\ xdg_wm_base = TRUE
  /\ viewporter = TRUE
  /\ output_list = 1
  /\ requests = {"set_panel_position", "desktop_ready"}

FrameSpec == FrameInit /\ [][Next]_vars

\* the dispatch loop as in Spec, for a compositor that has announced two seats
SeatsInit ==
  /\ NoEvents
  /\ BoundSeats = Seats
  /\ ~shown.recorded
  /\ ListBuilt
  /\ pc = "dispatch"
  /\ need_roundtrip = FALSE
  /\ ret = 0
  /\ desktop_shell = TRUE
  /\ xdg_wm_base = TRUE
  /\ viewporter = TRUE
  /\ output_list = 1
  /\ requests = {"set_panel_position", "desktop_ready"}

SeatsSpec == SeatsInit /\ [][Next]_vars

\* The compositor fires every frame callback it was asked for and releases every
\* buffer it holds (section 5: "once a frame callback is requested it will
\* eventually fire").
FairSpec ==
  /\ Spec
  /\ WF_vars(\E allocOk \in BOOLEAN: BackgroundFrameDone(allocOk))
  /\ WF_vars(\E i \in 1..MaxBuffers: BufferRelease(i))

(***************************************************************************)
(* main: building the application list                                     *)
(***************************************************************************)
\* one turn of the loop over app_list
InsertApp ==
  /\ cur <= Len(app_list)
  /\ sorted_apps' = IF g_app_info_should_show(app_list[cur])
                    THEN g_list_insert_sorted(sorted_apps, app_list[cur])
                    ELSE sorted_apps
  /\ cur' = cur + 1
  /\ UNCHANGED <<handlervars, app_list, mainvars>>

\* main starts with any list of installed applications
ListInit ==
  /\ NoEvents
  /\ BoundSeats = {"seat0"}
  /\ ~shown.recorded
  /\ NotConnected
  /\ app_list \in AppLists
  /\ cur = 1
  /\ sorted_apps = <<>>

ListNext == InsertApp

ListSpec == ListInit /\ [][ListNext]_vars

(***************************************************************************)
(* main: discovery round-trips, protocol checks, dispatch loop, exit       *)
(***************************************************************************)
\* the globals of the compositor that registry_global binds in the model;
\* wl_compositor, wl_shm and wl_seat are bound before any of them
Interfaces == {"weston_desktop_shell", "xdg_wm_base", "wp_viewporter", "wl_output"}

\* registry_global: one global is announced during a discovery round-trip
RegistryGlobal(interface) ==
  /\ ~crashed
  /\ pc = "roundtrip"
  /\ interface \in Interfaces
  /\ CASE interface = "weston_desktop_shell" ->
            /\ ~desktop_shell
            /\ desktop_shell' = TRUE
            /\ UNCHANGED <<xdg_wm_base, viewporter, output_list, need_roundtrip>>
       [] interface = "xdg_wm_base" ->
            /\ ~xdg_wm_base
            /\ xdg_wm_base' = TRUE
            /\ UNCHANGED <<desktop_shell, viewporter, output_list, need_roundtrip>>
       [] interface = "wp_viewporter" ->
            /\ ~viewporter
            /\ viewporter' = TRUE
            /\ UNCHANGED <<desktop_shell, xdg_wm_base, output_list, need_roundtrip>>
       [] interface = "wl_output" ->
            /\ output_list = 0
            /\ output_list' = output_list + 1
            /\ need_roundtrip' = TRUE
            /\ UNCHANGED <<desktop_shell, xdg_wm_base, viewporter>>
  /\ UNCHANGED <<handlervars, listvars, pc, ret, requests>>

\* while (need_roundtrip) { need_roundtrip = false; wl_display_roundtrip(display); }
RoundtripLoop ==
  /\ ~crashed
  /\ pc = "roundtrips"
  /\ IF need_roundtrip
     THEN need_roundtrip' = FALSE /\ pc' = "roundtrip"
     ELSE need_roundtrip' = need_roundtrip /\ pc' = "checks"
  /\ UNCHANGED <<handlervars, listvars, ret, desktop_shell, xdg_wm_base, viewporter,
                 output_list, requests>>

\* wl_display_roundtrip returns (its result is not looked at)
RoundtripReturns ==
  /\ ~crashed
  /\ pc = "roundtrip"
  /\ pc' = "roundtrips"
  /\ UNCHANGED <<handlervars, listvars, need_roundtrip, ret, desktop_shell,
                 xdg_wm_base, viewporter, output_list, requests>>

\* a check that forgets the viewporter
MissingProtocol_NoViewporter == ~desktop_shell \/ ~xdg_wm_base

\* the three tests after the discovery loop
MissingProtocol == ~desktop_shell \/ ~xdg_wm_base \/ ~viewporter

\* main has returned: the process, its connection and every object are gone
ProcessGone ==
  /\ output' = [width |-> 0, height |-> 0, background |-> FALSE]
  /\ bg' = NewBackground
  /\ seat' = [s \in Seats |-> [bound |-> FALSE, pointer |-> 0, surface |-> "NULL"]]
  /\ current_cursor' = "NULL"
  /\ callbacks' = 0
  /\ committed' = FALSE
  /\ set_background' = 0
  /\ inside' = [s \in Seats |-> FALSE]
  /\ effects' = NoEffects
  /\ pending' = FALSE
  /\ crashed' = FALSE
  /\ shown' = [shown EXCEPT !.rows = <<>>]

\* the checks of the required globals, then set_panel_position and
\* desktop_ready, or ret = 1 and goto done
CheckProtocols ==
  /\ ~crashed
  /\ pc = "checks"
  /\ IF MissingProtocol
     THEN /\ ret' = 1
          /\ pc' = "exited"
          /\ requests' = requests
          /\ ProcessGone
     ELSE /\ ret' = ret
          /\ pc' = "dispatch"
          /\ requests' = requests \cup {"set_panel_position", "desktop_ready"}
          /\ UNCHANGED handlervars
  /\ UNCHANGED <<listvars, need_roundtrip, desktop_shell, xdg_wm_base, viewporter,
                 output_list>>

\* wl_display_dispatch returns -1: break, done:, return ret
DispatchError ==
  /\ ~crashed
  /\ pc = "dispatch"
  /\ pc' = "exited"
  /\ ret' = ret
  /\ ProcessGone
  /\ UNCHANGED <<listvars, need_roundtrip, desktop_shell, xdg_wm_base, viewporter,
                 output_list, requests>>

MainInit ==
  /\ NoEvents
  /\ BoundSeats = {"seat0"}
  /\ ~shown.recorded
  /\ ListBuilt
  /\ NotConnected

MainNext ==
  \/ RoundtripLoop
  \/ \E interface \in Interfaces: RegistryGlobal(interface)
  \/ RoundtripReturns
  \/ CheckProtocols
  \/ DispatchError
  \/ Next

MainSpec == MainInit /\ [][MainNext]_vars

(***************************************************************************)
(* Claims                                                                  *)
(***************************************************************************)
\* the steps of the handlers
ReleaseStep == \E i \in 1..MaxBuffers: BufferRelease(i)

FrameDoneStep == \E allocOk \in BOOLEAN: BackgroundFrameDone(allocOk)

ConfigureStep ==
  \E size \in ConfigSizes, allocOk \in BOOLEAN: DesktopShellConfigure(size, allocOk)

ButtonStep ==
  \E s \in Seats, button \in Buttons, state \in ButtonStates:
    PointerButton(s, button, state)

\* a step of a handler that requests a redraw (calls draw_background):
\* configure, pointer enter and leave, and motion and vertical axis on a seat
\* whose pointer has a focused surface
RedrawRequestStep ==
  \/ ConfigureStep
  \/ \E s \in Seats, allocOk \in BOOLEAN:
       \/ PointerLeave(s, allocOk)
       \/ \E x \in SurfaceXs, y \in SurfaceYs: PointerEnter(s, x, y, allocOk)
       \/ /\ seat[s].surface # "NULL"
          /\ \/ \E x \in SurfaceXs, y \in SurfaceYs: PointerMotion(s, x, y, allocOk)
             \/ \E v \in AxisValues:
                  PointerAxis(s, WL_POINTER_AXIS_VERTICAL_SCROLL, v, allocOk)

Geometry(buffer) == <<buffer.width, buffer.height, buffer.stride>>

\* the busy buffers of a pool that have geometry g
BusyCount(buffers, g) ==
  Cardinality({i \in 1..Len(buffers): buffers[i].busy /\ Geometry(buffers[i]) = g})

Geometries(buffers) == {Geometry(buffers[i]): i \in 1..Len(buffers)}

\* one step keeps every busy buffer: the busy buffers of each geometry are those
\* of before, plus the one buffer this step painted and attached (which therefore
\* was not busy), and only a release event takes one away, leaving it in the pool
BusyKept ==
  LET old == bg.buffers
      new == bg'.buffers
      k == effects'.painted
  IN IF ReleaseStep
     THEN /\ Len(new) = Len(old)
          /\ \A i \in 1..Len(old): Geometry(new[i]) = Geometry(old[i])
          /\ \A i \in 1..Len(old): new[i].busy => old[i].busy
          /\ Cardinality({i \in 1..Len(old): old[i].busy /\ ~new[i].busy}) = 1
     ELSE /\ k # 0 => k \in 1..Len(new) /\ new[k].busy
          /\ \A g \in Geometries(old) \cup Geometries(new):
               BusyCount(new, g) =
                 BusyCount(old, g) + (IF k # 0 /\ Geometry(new[k]) = g THEN 1 ELSE 0)

\* C1: a busy buffer is never freed and never chosen as the buffer a draw paints
\* and attaches; busy becomes true only by the attach of a draw and false only
\* by the compositor's release event, whatever the interleaving of events.
C1_BusyBufferNeverFreedNorReused == [][BusyKept]_vars

\* A draw has painted one buffer while the compositor still holds another one
\* of a size the surface no longer has.
C1_Witness ==
  /\ effects.painted # 0
  /\ \E i \in 1..Len(bg.buffers):
       /\ i # effects.painted
       /\ bg.buffers[i].busy
       /\ Geometry(bg.buffers[i]) # Geometry(bg.buffers[effects.painted])

\* C2: at most one frame callback is outstanding: draw_background requests one
\* (and commits) only when background->frame is NULL, and a redraw request that
\* arrives while one is outstanding neither commits nor requests another.
C2_AtMostOneFrameCallback ==
  /\ [](callbacks <= 1 /\ (bg.frame <=> callbacks = 1))
  /\ [][(bg.frame /\ RedrawRequestStep)
          => (effects'.painted = 0 /\ callbacks' = callbacks /\ bg'.frame)]_vars
  /\ [][(effects'.painted # 0 \/ callbacks' > callbacks)
          => (~bg.frame \/ FrameDoneStep)]_vars

\* A redraw request has arrived while the one frame callback was outstanding.
C2_Witness == bg.frame /\ bg.needs_draw /\ callbacks = 1 /\ effects.painted = 0

\* C3: no redraw request is dropped: when every frame callback fires, every call
\* of draw_background is eventually followed by a paint-and-commit made at or
\* after that call.
C3_NoRedrawDropped == pending ~> ~pending

\* C4: after every handler, needs_draw implies that a frame callback is
\* outstanding; needs_draw is set only by a redraw request made while a callback
\* is outstanding, and cleared only by the draw_background call that follows
\* the completion of the callback.
C4_NeedsDrawOnlyWhileFramePending ==
  /\ [](bg.needs_draw => (bg.frame /\ callbacks = 1))
  /\ [][(~bg.needs_draw /\ bg'.needs_draw)
          => (bg.frame /\ bg'.frame /\ effects'.painted = 0
              /\ RedrawRequestStep)]_vars
  /\ [][(bg.needs_draw /\ ~bg'.needs_draw) => FrameDoneStep]_vars

\* A redraw request is latched behind the outstanding frame callback.
C4_Witness == bg.needs_draw /\ bg.frame /\ pending

\* total_height and visible_height of the menu, as section 4.3 defines them
TotalHeight == g_list_length(application_list) * bg.extents_height

SpecVisibleHeight == bg.height - 2 * MENU_PADDING

\* C5: after every handler the scroll offset is within
\* [0, max(0, total_height - visible_height)], and is 0 when the whole menu
\* fits; also when the redraw is deferred behind a frame callback.
C5_ScrollAlwaysClamped ==
  /\ 0 <= bg.y_scroll
  /\ bg.y_scroll <= Max(0, TotalHeight - SpecVisibleHeight)
  /\ TotalHeight <= SpecVisibleHeight => bg.y_scroll = 0

\* C6: a failing create_buffer skips the draw cycle and nothing else: no crash,
\* nothing attached or committed, no frame callback requested, and redraw
\* requests are still served.
C6_AllocationFailureSkipsDraw ==
  effects.alloc = "failed"
    => /\ ~crashed
       /\ effects.painted = 0
       /\ ~bg.frame
       /\ callbacks = 0
       /\ \A i \in 1..Len(bg.buffers): bg.buffers[i] # NULL

\* C7: hit-test inverts row placement: with the rows placed as draw_background
\* places them, the index the button handler computes at cursor Y = row_y(i) +
\* epsilon is i, for every entry i and every 0 <= epsilon < row height.
C7_HitTestInvertsRowPlacement ==
  bg.extents_height > 0 =>
    \A i \in 0..(g_list_length(application_list) - 1):
      \A epsilon \in 0..(bg.extents_height - 1):
        LET c == [bg EXCEPT !.cursor_y =
                    RowY(bg.y_scroll, bg.extents_height, i) + epsilon]
        IN /\ MenuY(c) >= 0
           /\ MenuIdx(c) = i
           /\ background_pointer_button(c, BTN_LEFT, WL_POINTER_BUTTON_STATE_RELEASED)
                = <<application_list[i + 1]>>

\* A left-button release inside a row below the first one of a scrolled menu has
\* launched that row's entry.
C7_Witness ==
  /\ bg.y_scroll > 0
  /\ \E i \in 1..(g_list_length(application_list) - 1):
       /\ bg.cursor_y >= RowY(bg.y_scroll, bg.extents_height, i)
       /\ bg.cursor_y < RowY(bg.y_scroll, bg.extents_height, i) + bg.extents_height
       /\ effects.launched = <<application_list[i + 1]>>

\* hit_test of section 4.3: the index of the row under local_y, or -1 for none
SpecHitTest(local_y, scroll_offset, row_height, count) ==
  LET menu_y == local_y + scroll_offset - MENU_PADDING
  IN IF row_height <= 0 \/ menu_y < 0
     THEN 0 - 1
     ELSE LET index == CHOOSE k \in 0..menu_y:
                         k * row_height <= menu_y /\ menu_y < (k + 1) * row_height
          IN IF index < count THEN index ELSE 0 - 1

\* the launch requests section 4.5 asks of a button event on a focused Background
SpecLaunches(b, button, state) ==
  LET hit == SpecHitTest(b.cursor_y, b.y_scroll, b.extents_height,
                         g_list_length(application_list))
  IN IF /\ button = BTN_LEFT
        /\ state = WL_POINTER_BUTTON_STATE_RELEASED
        /\ hit >= 0
     THEN <<application_list[hit + 1]>>
     ELSE <<>>

\* C8: a button event on a focused Background makes exactly one launch request,
\* for the hit-tested entry, when it is a left-button release over an entry;
\* it makes none for another button, a press, menu_y < 0, an index >= count or
\* a row height of zero.  No other handler launches anything.
C8_ButtonLaunchesHitEntry ==
  /\ [](\A button \in Buttons, state \in ButtonStates:
          /\ background_pointer_button(bg, button, state)
               = SpecLaunches(bg, button, state)
          /\ background_pointer_button([bg EXCEPT !.extents_height = 0], button, state)
               = <<>>)
  /\ [][effects'.launched # <<>> => ButtonStep]_vars
  /\ [][\A s \in Seats, button \in Buttons, state \in ButtonStates:
          (PointerButton(s, button, state) /\ seat[s].surface # "NULL")
            => effects'.launched = SpecLaunches(bg, button, state)]_vars

\* The left-button release of the end-to-end example: entry index 2 launched.
C8_Witness == effects.launched = <<application_list[3]>>

\* C9: provisioning is idempotent: an output has at most one Background and one
\* set_background request was sent for it; a done event on an output that has a
\* Background changes nothing and sends nothing.
C9_ProvisioningIdempotent ==
  /\ [](set_background <= 1 /\ (output.background <=> set_background = 1))
  /\ [][output.background => output'.background]_vars
  /\ [][OutputDone => effects'.done = (IF output.background THEN "kept" ELSE "created")]_vars
  /\ [][effects'.done = "kept"
          => /\ bg' = bg
             /\ output' = output
             /\ set_background' = set_background
             /\ callbacks' = callbacks
             /\ seat' = seat
             /\ current_cursor' = current_cursor
             /\ effects' = [NoEffects EXCEPT !.done = "kept"]]_vars

\* A done event has just been handled for an output whose Background was drawn,
\* scrolled and still waits for its frame callback.
C9_Witness ==
  /\ effects.done = "kept"
  /\ set_background = 1
  /\ bg.frame
  /\ bg.y_scroll > 0
  /\ Len(bg.buffers) > 0

\* the step in which output_done provisions the Background
Provisioning == ~output.background /\ output'.background

\* C10 as claimed: the Background provisioned by a done event has the width and
\* height of the output's recorded current mode.
C10_ProvisionedWithModeSize ==
  [][Provisioning => (bg'.width = output.width /\ bg'.height = output.height)]_vars

\* C10 amended: a mode event with the current flag records its size in the
\* output; the done event leaves it there and provisions a Background of width
\* 0 and height 0; only a configure event gives the Background a size.
C10_ProvisionedZeroSized ==
  /\ [][\A flags \in ModeFlags, size \in ModeSizes:
          OutputMode(flags, size)
            => IF HasBit(flags, WL_OUTPUT_MODE_CURRENT)
               THEN output'.width = size[1] /\ output'.height = size[2]
               ELSE output' = output]_vars
  /\ [][Provisioning
          => /\ bg'.width = 0 /\ bg'.height = 0
             /\ output'.width = output.width /\ output'.height = output.height]_vars
  /\ [][(bg'.width # bg.width \/ bg'.height # bg.height) => ConfigureStep]_vars

\* The output has recorded the mode 8x6 and its Background, just provisioned,
\* has no size.
C10_Witness ==
  /\ effects.done = "created"
  /\ output.width = 8 /\ output.height = 6
  /\ bg.width = 0 /\ bg.height = 0

\* the buffer a step painted and attached, as <<width, height, stride>>
PaintedGeometry == Geometry(bg'.buffers[effects'.painted])

\* C11: a configure event (w, h) sets the Background's size to (w, h) and
\* triggers exactly one redraw: inside the handler when no frame callback is
\* outstanding, otherwise (latched, nothing drawn in the handler) when the
\* outstanding callback completes; the buffer that draw paints and attaches has
\* width w, height h and the stride computed from w.
C11_ConfigureRedrawsOnce ==
  /\ [][\A size \in ConfigSizes, allocOk \in BOOLEAN:
          DesktopShellConfigure(size, allocOk)
            => /\ bg'.width = size[1] /\ bg'.height = size[2]
               /\ IF bg.frame
                  THEN effects'.painted = 0 /\ bg'.needs_draw /\ callbacks' = callbacks
                  ELSE /\ effects'.painted # 0
                       /\ callbacks' = callbacks + 1
                       /\ PaintedGeometry
                            = <<size[1], size[2], cairo_format_stride_for_width(size[1])>>]_vars
  /\ [][(FrameDoneStep /\ bg.needs_draw)
          => /\ effects'.painted # 0
             /\ callbacks' = 1
             /\ ~bg'.needs_draw
             /\ PaintedGeometry
                  = <<bg.width, bg.height, cairo_format_stride_for_width(bg.width)>>]_vars

\* the list is in ascending order of name under byte comparison
Ascending(list) ==
  \A i, j \in 1..Len(list):
    i < j => strcmp(NameBytes[list[i].name], NameBytes[list[j].name]) <= 0

\* the list holds, once each, the applications the loop has passed that should show
HoldsShown(list) ==
  /\ \A k \in 1..Len(app_list):
       (\E i \in 1..Len(list): list[i] = app_list[k])
         <=> (k < cur /\ app_list[k].should_show)
  /\ Len(list) = Cardinality({k \in 1..(cur - 1): app_list[k].should_show})

Names(list) == [i \in 1..Len(list) |-> list[i].name]

\* C12 as claimed: the list is ascending by name and stable: entries with equal
\* names keep their relative insertion order.
C12_SortedStable ==
  /\ Ascending(sorted_apps)
  /\ \A i, j \in 1..Len(sorted_apps):
       (i < j /\ sorted_apps[i].name = sorted_apps[j].name)
         => sorted_apps[i].id < sorted_apps[j].id

\* C12 amended: after inserting any sequence of entries the list holds the
\* entries that should show, in ascending order of name under case-sensitive
\* byte comparison ("Zed", "apple", "Box" gives Box, Zed, apple); entries with
\* equal names are in reverse insertion order.
C12_SortedTiesReversed ==
  /\ Ascending(sorted_apps)
  /\ HoldsShown(sorted_apps)
  /\ \A i, j \in 1..Len(sorted_apps):
       (i < j /\ sorted_apps[i].name = sorted_apps[j].name)
         => sorted_apps[i].id > sorted_apps[j].id
  /\ (cur > Len(app_list)
        /\ Names(SelectSeq(app_list, g_app_info_should_show)) = Names(InstalledApps))
       => Names(sorted_apps) = application_list

\* The loop has ended with two entries of one name in the list, next to an
\* entry of another name.
C12_Witness ==
  /\ cur > Len(app_list)
  /\ Len(sorted_apps) = Len(app_list)
  /\ \E i \in 1..(Len(sorted_apps) - 1): sorted_apps[i].name = sorted_apps[i + 1].name
  /\ \E i \in 1..(Len(sorted_apps) - 1): sorted_apps[i].name # sorted_apps[i + 1].name

\* C13: when the blocking dispatch call reports an error the event loop ends
\* and the process exits with a non-zero exit code.
C13_DispatchErrorExitsNonZero ==
  [][DispatchError => (pc' = "exited" /\ ret' # 0)]_vars

\* the requests main sends once every required global is there
ShellRequests == {"set_panel_position", "desktop_ready"}

C15_RedrawsCoalesced ==
  /\ [][(bg.frame /\ RedrawRequestStep)
          => (effects'.painted = 0 /\ bg'.needs_draw /\ bg'.frame)]_vars
  /\ [][FrameDoneStep
          => IF bg.needs_draw
             THEN /\ effects'.painted # 0
                  /\ bg'.frame /\ ~bg'.needs_draw
                  /\ callbacks' = 1
             ELSE /\ effects'.painted = 0
                  /\ ~bg'.frame /\ ~bg'.needs_draw
                  /\ callbacks' = 0]_vars
  /\ [][callbacks' - callbacks
          = (IF effects'.painted # 0 THEN 1 ELSE 0) - (IF FrameDoneStep THEN 1 ELSE 0)]_vars
  /\ [](callbacks \in {0, 1})

\* the buffers of a pool that have geometry g, and those of them that are not busy
Count(buffers, g) == Cardinality({i \in 1..Len(buffers): Geometry(buffers[i]) = g})

IdleCount(buffers, g) == Count(buffers, g) - BusyCount(buffers, g)

\* the surface's size after a step, as a buffer geometry
CurrentGeometry ==
  <<bg'.width, bg'.height, cairo_format_stride_for_width(bg'.width)>>

\* a step in which draw_background got past the frame throttle
DrawRan == effects'.painted # 0 \/ effects'.alloc = "failed"

\* buffers of geometry g that a step took out of the pool
Removed(g) ==
  Count(bg.buffers, g) + (IF effects'.alloc = "ok" /\ g = CurrentGeometry THEN 1 ELSE 0)
    - Count(bg'.buffers, g)

\* one step follows the pool's policy
PoolPolicy ==
  LET old == bg.buffers
      new == bg'.buffers
      G == Geometries(old) \cup Geometries(new)
  IN /\ effects'.alloc # "none"
          => (DrawRan /\ IdleCount(old, CurrentGeometry) = 0)
     /\ effects'.alloc = "ok"
          => (effects'.painted = 1 /\ Geometry(new[1]) = CurrentGeometry)
     /\ (DrawRan /\ effects'.alloc = "none")
          => /\ IdleCount(old, CurrentGeometry) >= 1
             /\ Geometry(new[effects'.painted]) = CurrentGeometry
             /\ Count(new, CurrentGeometry) = Count(old, CurrentGeometry)
             /\ IdleCount(new, CurrentGeometry) = IdleCount(old, CurrentGeometry) - 1
     /\ \A g \in G:
          /\ Removed(g) >= 0
          /\ Removed(g) > 0
               => /\ DrawRan
                  /\ g # CurrentGeometry
                  /\ Removed(g) <= IdleCount(old, g)
                  /\ BusyCount(new, g) = BusyCount(old, g)
     /\ effects'.freed > 0 => \E g \in G: Removed(g) > 0
     /\ \/ /\ Len(new) = Len(old)
           /\ \A i \in 1..Len(old):
                Geometry(new[i]) = Geometry(old[i]) /\ (new[i].busy => old[i].busy)
           /\ effects'.freed = 0 /\ effects'.alloc = "none"
        \/ ~ReleaseStep

\* C16: a draw allocates a buffer only when the pool holds no non-busy buffer of
\* exactly the current width, height and stride, and reuses such a buffer
\* otherwise; a buffer leaves the pool only in a draw and only if it is not busy
\* and of another geometry than the surface's current size; the release event
\* only clears busy.
C16_PoolPolicy == [][PoolPolicy]_vars

\* A draw has just freed an idle buffer of the old size and reused an idle
\* buffer of the current size without allocating.
C16_Witness ==
  /\ effects.freed > 0
  /\ effects.alloc = "none"
  /\ effects.painted # 0
  /\ Len(bg.buffers) >= 1

\* C17: pointer leave resets the cached cursor position of the surface to
\* (-1, -1), runs the leave handler, then clears the focus of the seat and the
\* cached current cursor; a motion, button, axis or frame event of a seat that
\* has no focused surface changes no Background field and no frame callback,
\* draws nothing and launches nothing.
DroppedStep(s) ==
  /\ seat[s].surface = "NULL"
  /\ \/ \E x \in SurfaceXs, y \in SurfaceYs, allocOk \in BOOLEAN:
          PointerMotion(s, x, y, allocOk)
     \/ \E b \in Buttons, st \in ButtonStates: PointerButton(s, b, st)
     \/ \E a \in Axes, v \in AxisValues, allocOk \in BOOLEAN:
          PointerAxis(s, a, v, allocOk)
     \/ PointerFrame(s)

LeaveStep(s) == \E allocOk \in BOOLEAN: PointerLeave(s, allocOk)

C17_LeaveClearsFocus ==
  /\ [][\A s \in Seats:
          LeaveStep(s) => /\ bg'.cursor_x = 0 - 1
                          /\ bg'.cursor_y = 0 - 1
                          /\ seat'[s].surface = "NULL"
                          /\ current_cursor' = "NULL"]_vars
  /\ [][\A s \in Seats:
          DroppedStep(s) => /\ bg' = bg
                            /\ callbacks' = callbacks
                            /\ effects' = NoEffects]_vars

\* C17 where on_cursor_leave returns: the same statement for the leave events
\* whose handler does not crash in draw_background
C17_LeaveClearsFocusOnReturn ==
  /\ [][\A s \in Seats:
          LeaveStep(s) => /\ bg'.cursor_x = 0 - 1
                          /\ bg'.cursor_y = 0 - 1
                          /\ ~crashed' => /\ seat'[s].surface = "NULL"
                                           /\ current_cursor' = "NULL"]_vars
  /\ [][\A s \in Seats:
          DroppedStep(s) => /\ bg' = bg
                            /\ callbacks' = callbacks
                            /\ effects' = NoEffects]_vars

\* the names of the rows of a painted frame whose band [y, y + height) holds
\* the position cursor_y
RowsAt(rows, cursor_y) ==
  LET under(row) == row.y <= cursor_y /\ cursor_y < row.y + row.height
      hit == SelectSeq(rows, under)
  IN [i \in 1..Len(hit) |-> hit[i].name]

ReleaseLeftStep(s) ==
  /\ seat[s].surface # "NULL"
  /\ PointerButton(s, BTN_LEFT, WL_POINTER_BUTTON_STATE_RELEASED)

\* C18: what is clicked is what is shown: in every interleaving of axis,
\* configure, frame-done and button events a left-button release launches the
\* entry whose row the frame committed last painted at the cursor's Y, and
\* nothing when that frame painted no row there.
C18_ClickedIsShown ==
  [][\A s \in Seats:
       ReleaseLeftStep(s) => effects'.launched = RowsAt(shown.rows, bg.cursor_y)]_vars

\* C18 for the releases that arrive while no redraw is latched behind a frame
\* callback
C18_ClickedIsShownWhenDrawn ==
  [][\A s \in Seats:
       (ReleaseLeftStep(s) /\ ~bg.needs_draw)
         => effects'.launched = RowsAt(shown.rows, bg.cursor_y)]_vars

\* the names of the rows a frame paints in the highlight colour
HighlightedNames(rows) ==
  LET lit(row) == row.highlighted
      hit == SelectSeq(rows, lit)
  IN [i \in 1..Len(hit) |-> hit[i].name]

\* the Background with the pointer at cursor_y
CursorAt(cursor_y) == [bg EXCEPT !.cursor_y = cursor_y]

\* cursor_y lies on the top edge of a row of the menu, or on the bottom edge of
\* the last one
OnRowBoundary(cursor_y) ==
  \E i \in 0..g_list_length(application_list):
    cursor_y = RowY(bg.y_scroll, bg.extents_height, 0) + i * bg.extents_height

\* C19: highlight and hit-test agree: for every cursor Y, scroll offset and row
\* height > 0 the draw highlights at most one row, and the row it highlights
\* is the row a left-button release at that Y launches, also when the cursor
\* lies exactly on a row boundary.
C19_HighlightAgreesWithHitTest ==
  bg.extents_height > 0 =>
    \A cursor_y \in 0..bg.height:
      /\ Len(HighlightedNames(PaintRows(CursorAt(cursor_y)))) <= 1
      /\ HighlightedNames(PaintRows(CursorAt(cursor_y)))
           = background_pointer_button(CursorAt(cursor_y), BTN_LEFT,
                                       WL_POINTER_BUTTON_STATE_RELEASED)

\* C19 away from the row boundaries
C19_HighlightAgreesInsideRows ==
  bg.extents_height > 0 =>
    \A cursor_y \in 0..bg.height:
      /\ Len(HighlightedNames(PaintRows(CursorAt(cursor_y)))) <= 1
      /\ ~OnRowBoundary(cursor_y)
           => HighlightedNames(PaintRows(CursorAt(cursor_y)))
                = background_pointer_button(CursorAt(cursor_y), BTN_LEFT,
                                            WL_POINTER_BUTTON_STATE_RELEASED)

\* C20: while the cached cursor position of the Background is the sentinel
\* (-1, -1), before the first enter or after a leave, every draw paints no menu
\* row in the highlight colour, at every reachable scroll offset.
C20_NoHighlightWithoutPointer ==
  (bg.cursor_x = 0 - 1 /\ bg.cursor_y = 0 - 1)
    => HighlightedNames(effects.rows) = <<>>

\* C20 for the draws whose first row starts at or below the top of the window
C20_NoHighlightWithoutPointerUnscrolled ==
  (bg.cursor_x = 0 - 1 /\ bg.cursor_y = 0 - 1 /\ bg.y_scroll <= MENU_PADDING)
    => HighlightedNames(effects.rows) = <<>>

\* C22: after any sequence of capabilities events on a seat, also repeated ones
\* that each announce the pointer capability, the seat has at most one live
\* wl_pointer with the pointer listener, so that the compositor's one pointer
\* event reaches the handlers once.
C22_AtMostOneLivePointer == \A s \in Seats: seat[s].pointer <= 1

EnterStep(s) ==
  \E x \in SurfaceXs, y \in SurfaceYs, allocOk \in BOOLEAN: PointerEnter(s, x, y, allocOk)

\* C21: with any number of seats and any interleaving of their enter and leave
\* events, every pointer enter on a surface that declares a cursor sends
\* wl_pointer_set_cursor for the pointer of the entering seat: comparing the
\* cursor's name with current_cursor never suppresses it.
C21_EveryEnterSetsCursor ==
  [][\A s \in Seats:
       (EnterStep(s) /\ bg.cursor # "NULL") => effects'.set_cursor]_vars

====
